---------------------------- MODULE Spec2Model ----------------------------
(***************************************************************************)
(* pickupscan: QR scan ingest (app/api/public.py), admin login / logout   *)
(* (app/api/admin_auth.py) and the session-gated admin dependency         *)
(* (app/core/deps.py) over the tables of app/db/models.py.                 *)
(***************************************************************************)
EXTENDS Integers, Sequences, FiniteSets, TLC

\* ------------------------------------------------------------------ bounds
MaxUsers == 2
MaxRegions == 2
MaxScans == 2
NumSessions == 2
MaxReqs == 2

\* Python's None for an Optional[int] column or a missing session key.  Primary
\* keys are assigned by the database from 1, so 0 is never a row id, and the
\* code's truth tests (`if not user_id`, `if pharmacy.region_id`) read 0 and
\* None alike.
Null == 0

Logins == {"alice", "bob"}
Passwords == {"pw1", "pw2"}
Salts == {"s1"}
\* The opaque tokens secrets.token_urlsafe(8) returns (never the empty string):
\* their supply bounds the pharmacies.  A caller can also send a string that
\* was never issued.
PublicIds == {"tokA", "tokB"}
Unissued == "guess"
SentIds == PublicIds \cup {Unissued, ""}
Sessions == 1..NumSessions
ReqIds == 1..MaxReqs

VARIABLES
    users,       \* table user:      id -> [login, password_hash, is_active, is_superuser]
    regions,     \* table region:    id -> [is_active]
    pharmacies,  \* table pharmacy:  id -> [public_id, region_id]
    scans,       \* table scanevent: sequence of [id, pharmacy_id, region_id], in insert order
    user_seq,    \* the serial behind user.id
    region_seq,  \* the serial behind region.id
    pharmacy_seq,\* the serial behind pharmacy.id
    scan_seq,    \* the serial behind scanevent.id
    session,     \* per browser session, the signed cookie's "user_id" (Null: absent)
    loggedOut,   \* per browser session: logout ran and no login has succeeded since
    last,        \* the request handled by the latest step and its response
    reqs         \* requests in flight (handlers taken statement by statement)

vars == <<users, regions, pharmacies, scans, user_seq, region_seq, pharmacy_seq,
          scan_seq, session, loggedOut, last, reqs>>

\* ------------------------------------------------------------ security.py
\* bcrypt: the hash carries its salt; the digest is one-way and is modelled as
\* the (salt, password) pair it is computed from, never compared to a password.
Digest(salt, password) == <<"bcrypt", salt, password>>

hash_password(salt, password) == [salt |-> salt, digest |-> Digest(salt, password)]

verify_password(password, password_hash) ==
    password_hash.digest = Digest(password_hash.salt, password)

\* ---------------------------------------------------------------- responses
NoRequest ==
    [op |-> "none", sess |-> 0, present |-> FALSE, public_id |-> "",
     login |-> "", password |-> "", status |-> 0, error |-> "",
     looked_up |-> FALSE, row |-> Null, region |-> Null, scan_id |-> Null]

\* A request slot: what was sent, where its handler stands, what it has read.
Idle ==
    [kind |-> "none", pc |-> "idle", sess |-> 0, present |-> FALSE,
     public_id |-> "", login |-> "", password |-> "", cookie0 |-> Null,
     cookie |-> Null, row |-> Null, region |-> Null, status |-> 0,
     scan_id |-> Null]

Init ==
    /\ reqs = [r \in ReqIds |-> Idle]
    /\ users = <<>>
    /\ regions = <<>>
    /\ pharmacies = <<>>
    /\ scans = <<>>
    /\ user_seq = 1
    /\ region_seq = 1
    /\ pharmacy_seq = 1
    /\ scan_seq = 1
    /\ session = [s \in Sessions |-> Null]
    /\ loggedOut = [s \in Sessions |-> FALSE]
    /\ last = NoRequest

Without(table, id) == [i \in DOMAIN table \ {id} |-> table[i]]

\* ----------------------------------------------- rows written out of band
\* Users, regions and pharmacies are created and maintained by the admin
\* tooling, which no request handler below implements.  Every such step
\* forgets the latest request: `last` describes a response only in the store
\* that produced it.
UsedLogins == {users[u].login : u \in DOMAIN users}

AddUser ==
    /\ user_seq <= MaxUsers
    /\ \E login \in Logins \ UsedLogins, password \in Passwords, salt \in Salts,
          active \in BOOLEAN, super \in BOOLEAN :
          users' = users @@ (user_seq :>
                      [login |-> login,
                       password_hash |-> hash_password(salt, password),
                       is_active |-> active,
                       is_superuser |-> super])
    /\ user_seq' = user_seq + 1
    /\ last' = NoRequest
    /\ UNCHANGED reqs
    /\ UNCHANGED <<regions, pharmacies, scans, region_seq, pharmacy_seq, scan_seq,
                   session, loggedOut>>

UpdateUser ==
    /\ \E u \in DOMAIN users, active \in BOOLEAN, super \in BOOLEAN :
          /\ <<active, super>> # <<users[u].is_active, users[u].is_superuser>>
          /\ users' = [users EXCEPT ![u].is_active = active,
                                    ![u].is_superuser = super]
    /\ last' = NoRequest
    /\ UNCHANGED reqs
    /\ UNCHANGED <<regions, pharmacies, scans, user_seq, region_seq, pharmacy_seq,
                   scan_seq, session, loggedOut>>

DeleteUser ==
    /\ \E u \in DOMAIN users : users' = Without(users, u)
    /\ last' = NoRequest
    /\ UNCHANGED reqs
    /\ UNCHANGED <<regions, pharmacies, scans, user_seq, region_seq, pharmacy_seq,
                   scan_seq, session, loggedOut>>

AddRegion ==
    /\ region_seq <= MaxRegions
    /\ \E active \in BOOLEAN :
          regions' = regions @@ (region_seq :> [is_active |-> active])
    /\ region_seq' = region_seq + 1
    /\ last' = NoRequest
    /\ UNCHANGED reqs
    /\ UNCHANGED <<users, pharmacies, scans, user_seq, pharmacy_seq, scan_seq,
                   session, loggedOut>>

\* A region row disappears while pharmacies still point at it (a store that
\* does not enforce the foreign key, or rows loaded without it).
DeleteRegion ==
    /\ \E r \in DOMAIN regions : regions' = Without(regions, r)
    /\ last' = NoRequest
    /\ UNCHANGED reqs
    /\ UNCHANGED <<users, pharmacies, scans, user_seq, region_seq, pharmacy_seq,
                   scan_seq, session, loggedOut>>

\* models.py: generate_public_id, the default_factory of Pharmacy.public_id:
\* secrets.token_urlsafe(8), one of the opaque tokens.
generate_public_id == PublicIds

\* A new pharmacy takes a generated token that no pharmacy holds: public ids
\* are generated once at creation and never reused.
AddPharmacy ==
    /\ \E public_id \in generate_public_id, region_id \in DOMAIN regions \cup {Null} :
          /\ \A p \in DOMAIN pharmacies : pharmacies[p].public_id # public_id
          /\ pharmacies' = pharmacies @@ (pharmacy_seq :>
                           [public_id |-> public_id, region_id |-> region_id])
    /\ pharmacy_seq' = pharmacy_seq + 1
    /\ last' = NoRequest
    /\ UNCHANGED reqs
    /\ UNCHANGED <<users, regions, scans, user_seq, region_seq, scan_seq,
                   session, loggedOut>>

SetPharmacyRegion ==
    /\ \E p \in DOMAIN pharmacies, region_id \in DOMAIN regions \cup {Null} :
          /\ region_id # pharmacies[p].region_id
          /\ pharmacies' = [pharmacies EXCEPT ![p].region_id = region_id]
    /\ last' = NoRequest
    /\ UNCHANGED reqs
    /\ UNCHANGED <<users, regions, scans, user_seq, region_seq, pharmacy_seq,
                   scan_seq, session, loggedOut>>

\* --------------------------------------------------- public.py: api_scan
\* Bug variant of PublicIdMissing: only an absent key is rejected (`is None`).
PublicIdMissing_KeyOnly(present, public_id) == ~present

\* data.get("pharmacy_public_id") and the test `if not pharmacy_public_id`:
\* a key that is absent (None) and the empty string are both rejected.
PublicIdMissing(present, public_id) == ~present \/ public_id = ""

\* Bug variant of FindPharmacy: the WHERE clause is lost.
FindPharmacy_NoWhere(public_id) == DOMAIN pharmacies

\* select(Pharmacy).where(Pharmacy.public_id == pharmacy_public_id): the rows
\* .first() chooses from.
FindPharmacy(public_id) ==
    {p \in DOMAIN pharmacies : pharmacies[p].public_id = public_id}

\* Bug variants of ResolveRegion: the region is never looked up; the
\* pharmacy's reference is copied without loading the region row.
ResolveRegion_Forgotten(p) == Null

ResolveRegion_Unchecked(p) == pharmacies[p].region_id

\* region = session.get(Region, pharmacy.region_id) if pharmacy.region_id else None
\* and then `region.id if region else None`.
ResolveRegion(p) ==
    IF pharmacies[p].region_id # Null /\ pharmacies[p].region_id \in DOMAIN regions
    THEN pharmacies[p].region_id
    ELSE Null

\* Bug variants of InsertScan: a live join (earlier rows of the pharmacy follow
\* its region); an upsert keyed by pharmacy (a second scan replaces the first).
InsertScan_LiveJoin(table, id, pharmacy_id, region_id) ==
    Append([i \in 1..Len(table) |->
               IF table[i].pharmacy_id = pharmacy_id
               THEN [table[i] EXCEPT !.region_id = region_id]
               ELSE table[i]],
           [id |-> id, pharmacy_id |-> pharmacy_id, region_id |-> region_id])

InsertScan_Upsert(table, id, pharmacy_id, region_id) ==
    IF \E i \in 1..Len(table) : table[i].pharmacy_id = pharmacy_id
    THEN [i \in 1..Len(table) |->
             IF table[i].pharmacy_id = pharmacy_id
             THEN [id |-> id, pharmacy_id |-> pharmacy_id, region_id |-> region_id]
             ELSE table[i]]
    ELSE Append(table, [id |-> id, pharmacy_id |-> pharmacy_id,
                        region_id |-> region_id])

\* ScanEvent(pharmacy_id=..., region_id=...); session.add; commit; refresh.
InsertScan(table, id, pharmacy_id, region_id) ==
    Append(table, [id |-> id, pharmacy_id |-> pharmacy_id, region_id |-> region_id])

ScanRequest(present, public_id) ==
    [NoRequest EXCEPT !.op = "api_scan", !.present = present, !.public_id = public_id]

api_scan(present, public_id) ==
    /\ Len(scans) < MaxScans
    /\ IF PublicIdMissing(present, public_id)
       THEN /\ last' = [ScanRequest(present, public_id) EXCEPT
                           !.status = 400, !.error = "Missing pharmacy_public_id"]
            /\ UNCHANGED <<scans, scan_seq>>
       ELSE IF FindPharmacy(public_id) = {}
       THEN /\ last' = [ScanRequest(present, public_id) EXCEPT
                           !.status = 400, !.error = "Unknown pharmacy",
                           !.looked_up = TRUE]
            /\ UNCHANGED <<scans, scan_seq>>
       ELSE \E p \in FindPharmacy(public_id) :
            /\ scans' = InsertScan(scans, scan_seq, p, ResolveRegion(p))
            /\ scan_seq' = scan_seq + 1
            /\ last' = [ScanRequest(present, public_id) EXCEPT
                           !.status = 200, !.looked_up = TRUE, !.row = p,
                           !.region = ResolveRegion(p), !.scan_id = scan_seq]
    /\ UNCHANGED <<users, regions, pharmacies, user_seq, region_seq, pharmacy_seq,
                   session, loggedOut, reqs>>

\* The JSON bodies a caller can send: no key, the empty string, a token, a guess.
ApiScan ==
    \E present \in BOOLEAN, public_id \in SentIds :
        /\ (~present => public_id = "")
        /\ api_scan(present, public_id)

\* ------------------------------------------- admin_auth.py and deps.py
\* select(User).where(User.login == login): the rows .first() chooses from.
FindUser(login) == {u \in DOMAIN users : users[u].login = login}

\* Bug variants of LoginRejected: the superuser test is dropped; an is_active
\* test is added.
LoginRejected_NoSuperuserCheck(u, password) ==
    \/ u = Null
    \/ ~verify_password(password, users[u].password_hash)

LoginRejected_RequiresActive(u, password) ==
    \/ u = Null
    \/ ~verify_password(password, users[u].password_hash)
    \/ ~users[u].is_superuser
    \/ ~users[u].is_active

\* `not user or not verify_password(...) or not user.is_superuser`, with the
\* row .first() returned (Null: no row).
LoginRejected(u, password) ==
    \/ u = Null
    \/ ~verify_password(password, users[u].password_hash)
    \/ ~users[u].is_superuser

LoginRequest(s, login, password) ==
    [NoRequest EXCEPT !.op = "admin_login", !.sess = s, !.login = login,
                      !.password = password]

admin_login(s, login, password) ==
    /\ \E u \in (IF FindUser(login) = {} THEN {Null} ELSE FindUser(login)) :
          IF LoginRejected(u, password)
          THEN /\ last' = [LoginRequest(s, login, password) EXCEPT
                              !.status = 400, !.error = "Invalid credentials",
                              !.row = u]
               /\ UNCHANGED <<session, loggedOut>>
          ELSE /\ session' = [session EXCEPT ![s] = u]
               /\ loggedOut' = [loggedOut EXCEPT ![s] = FALSE]
               /\ last' = [LoginRequest(s, login, password) EXCEPT
                              !.status = 303, !.row = u]
    /\ UNCHANGED <<users, regions, pharmacies, scans, user_seq, region_seq,
                   pharmacy_seq, scan_seq, reqs>>

AdminLogin ==
    \E s \in Sessions, login \in Logins, password \in Passwords :
        admin_login(s, login, password)

\* Bug variant of ClearSession: the cookie is left as it was.
ClearSession_Keep(cookie) == cookie

\* request.session.clear()
ClearSession(cookie) == Null

admin_logout(s) ==
    /\ session' = [session EXCEPT ![s] = ClearSession(session[s])]
    /\ loggedOut' = [loggedOut EXCEPT ![s] = TRUE]
    /\ last' = [NoRequest EXCEPT !.op = "admin_logout", !.sess = s, !.status = 303]
    /\ UNCHANGED <<users, regions, pharmacies, scans, user_seq, region_seq,
                   pharmacy_seq, scan_seq, reqs>>

AdminLogout == \E s \in Sessions : admin_logout(s)

\* Bug variant of IsValidAdmin: is_active is not consulted.
IsValidAdmin_NoActive(user_id) ==
    /\ user_id \in DOMAIN users
    /\ users[user_id].is_superuser

\* deps.py: user = session.get(User, user_id);
\* `not user or not user.is_active or not user.is_superuser` raises 401.
IsValidAdmin(user_id) ==
    /\ user_id \in DOMAIN users
    /\ users[user_id].is_active
    /\ users[user_id].is_superuser

get_current_admin(s) ==
    /\ IF session[s] = Null \/ ~IsValidAdmin(session[s])
       THEN last' = [NoRequest EXCEPT !.op = "get_current_admin", !.sess = s,
                                      !.status = 401]
       ELSE last' = [NoRequest EXCEPT !.op = "get_current_admin", !.sess = s,
                                      !.status = 200, !.row = session[s]]
    /\ UNCHANGED <<users, regions, pharmacies, scans, user_seq, region_seq,
                   pharmacy_seq, scan_seq, session, loggedOut, reqs>>

CurrentAdmin == \E s \in Sessions : get_current_admin(s)

\* ------------------------------------------------ requests in flight
\* The same handlers taken one statement at a time, several requests at once.
\* Each request has its own database session (deps.py: get_session) and its
\* own copy of the signed cookie, read when the request arrives and written
\* back with the response (main.py: SessionMiddleware).
Set(r, fields) == reqs' = [reqs EXCEPT ![r] = fields]

\* The cookie a response leaves in the browser: the session when it is not
\* empty, a deleted cookie when it was emptied, nothing when it stayed empty.
CookieAfter(s, cookie0, cookie) ==
    IF cookie # Null THEN cookie
    ELSE IF cookie0 # Null THEN Null
    ELSE session[s]

Respond(r, fields) ==
    /\ Set(r, [fields EXCEPT !.pc = "done"])
    /\ session' = [session EXCEPT
                      ![fields.sess] = CookieAfter(fields.sess, fields.cookie0,
                                                   fields.cookie)]

Send ==
    \E r \in ReqIds, s \in Sessions :
        /\ reqs[r].pc = "idle"
        /\ \A q \in ReqIds : q < r => reqs[q].pc # "idle"
        /\ \/ \E present \in BOOLEAN, public_id \in SentIds :
                 /\ (~present => public_id = "")
                 /\ Set(r, [Idle EXCEPT !.kind = "api_scan", !.pc = "validate",
                                       !.sess = s, !.present = present,
                                       !.public_id = public_id,
                                       !.cookie0 = session[s],
                                       !.cookie = session[s]])
           \/ \E login \in Logins, password \in Passwords :
                 Set(r, [Idle EXCEPT !.kind = "admin_login", !.pc = "lookup",
                                     !.sess = s, !.login = login,
                                     !.password = password,
                                     !.cookie0 = session[s],
                                     !.cookie = session[s]])
           \/ Set(r, [Idle EXCEPT !.kind = "admin_logout", !.pc = "clear",
                                  !.sess = s, !.cookie0 = session[s],
                                  !.cookie = session[s]])
           \/ Set(r, [Idle EXCEPT !.kind = "get_current_admin", !.pc = "read",
                                  !.sess = s, !.cookie0 = session[s],
                                  !.cookie = session[s]])
        /\ UNCHANGED <<users, regions, pharmacies, scans, user_seq, region_seq,
                       pharmacy_seq, scan_seq, session, loggedOut, last>>

\* public.py 51-61
ScanValidate ==
    \E r \in ReqIds :
        /\ reqs[r].kind = "api_scan" /\ reqs[r].pc = "validate"
        /\ IF PublicIdMissing(reqs[r].present, reqs[r].public_id)
           THEN Respond(r, [reqs[r] EXCEPT !.status = 400])
           ELSE Set(r, [reqs[r] EXCEPT !.pc = "lookup"]) /\ UNCHANGED session
        /\ UNCHANGED <<users, regions, pharmacies, scans, user_seq, region_seq,
                       pharmacy_seq, scan_seq, loggedOut, last>>

\* public.py 63-67
ScanLookup ==
    \E r \in ReqIds :
        /\ reqs[r].kind = "api_scan" /\ reqs[r].pc = "lookup"
        /\ IF FindPharmacy(reqs[r].public_id) = {}
           THEN Respond(r, [reqs[r] EXCEPT !.status = 400])
           ELSE /\ \E p \in FindPharmacy(reqs[r].public_id) :
                      Set(r, [reqs[r] EXCEPT !.pc = "region", !.row = p])
                /\ UNCHANGED session
        /\ UNCHANGED <<users, regions, pharmacies, scans, user_seq, region_seq,
                       pharmacy_seq, scan_seq, loggedOut, last>>

\* public.py 69-70
ScanRegion ==
    \E r \in ReqIds :
        /\ reqs[r].kind = "api_scan" /\ reqs[r].pc = "region"
        /\ Set(r, [reqs[r] EXCEPT !.pc = "insert",
                                  !.region = ResolveRegion(reqs[r].row)])
        /\ UNCHANGED <<users, regions, pharmacies, scans, user_seq, region_seq,
                       pharmacy_seq, scan_seq, session, loggedOut, last>>

\* public.py 76-90: the insert takes its id from the table's serial when it
\* is flushed, and the commit makes the one row visible.
ScanInsert ==
    \E r \in ReqIds :
        /\ reqs[r].kind = "api_scan" /\ reqs[r].pc = "insert"
        /\ scans' = InsertScan(scans, scan_seq, reqs[r].row, reqs[r].region)
        /\ scan_seq' = scan_seq + 1
        /\ Respond(r, [reqs[r] EXCEPT !.status = 200, !.scan_id = scan_seq])
        /\ UNCHANGED <<users, regions, pharmacies, user_seq, region_seq,
                       pharmacy_seq, loggedOut, last>>

\* admin_auth.py 47-48
LoginLookup ==
    \E r \in ReqIds :
        /\ reqs[r].kind = "admin_login" /\ reqs[r].pc = "lookup"
        /\ \E u \in (IF FindUser(reqs[r].login) = {} THEN {Null}
                     ELSE FindUser(reqs[r].login)) :
              Set(r, [reqs[r] EXCEPT !.pc = "check", !.row = u])
        /\ UNCHANGED <<users, regions, pharmacies, scans, user_seq, region_seq,
                       pharmacy_seq, scan_seq, session, loggedOut, last>>

\* admin_auth.py 50-66
LoginCheck ==
    \E r \in ReqIds :
        /\ reqs[r].kind = "admin_login" /\ reqs[r].pc = "check"
        /\ IF LoginRejected(reqs[r].row, reqs[r].password)
           THEN Respond(r, [reqs[r] EXCEPT !.status = 400])
           ELSE Respond(r, [reqs[r] EXCEPT !.status = 303,
                                           !.cookie = reqs[r].row])
        /\ UNCHANGED <<users, regions, pharmacies, scans, user_seq, region_seq,
                       pharmacy_seq, scan_seq, loggedOut, last>>

\* admin_auth.py 74-75
LogoutClear ==
    \E r \in ReqIds :
        /\ reqs[r].kind = "admin_logout" /\ reqs[r].pc = "clear"
        /\ Respond(r, [reqs[r] EXCEPT !.status = 303,
                                      !.cookie = ClearSession(reqs[r].cookie)])
        /\ UNCHANGED <<users, regions, pharmacies, scans, user_seq, region_seq,
                       pharmacy_seq, scan_seq, loggedOut, last>>

\* deps.py 44-47
AdminRead ==
    \E r \in ReqIds :
        /\ reqs[r].kind = "get_current_admin" /\ reqs[r].pc = "read"
        /\ IF reqs[r].cookie = Null
           THEN Respond(r, [reqs[r] EXCEPT !.status = 401])
           ELSE Set(r, [reqs[r] EXCEPT !.pc = "load"]) /\ UNCHANGED session
        /\ UNCHANGED <<users, regions, pharmacies, scans, user_seq, region_seq,
                       pharmacy_seq, scan_seq, loggedOut, last>>

\* deps.py 49-54
AdminLoad ==
    \E r \in ReqIds :
        /\ reqs[r].kind = "get_current_admin" /\ reqs[r].pc = "load"
        /\ IF IsValidAdmin(reqs[r].cookie)
           THEN Respond(r, [reqs[r] EXCEPT !.status = 200, !.row = reqs[r].cookie])
           ELSE Respond(r, [reqs[r] EXCEPT !.status = 401])
        /\ UNCHANGED <<users, regions, pharmacies, scans, user_seq, region_seq,
                       pharmacy_seq, scan_seq, loggedOut, last>>

\* The store the concurrent requests run against: one superuser (active or
\* not), one region, a pharmacy in that region and a pharmacy whose region row
\* is gone.
InitConc ==
    /\ reqs = [r \in ReqIds |-> Idle]
    /\ \E active \in BOOLEAN :
          users = (1 :> [login |-> "alice",
                         password_hash |-> hash_password("s1", "pw1"),
                         is_active |-> active, is_superuser |-> TRUE])
    /\ regions = (1 :> [is_active |-> TRUE])
    /\ pharmacies = (1 :> [public_id |-> "tokA", region_id |-> 1])
                       @@ (2 :> [public_id |-> "tokB", region_id |-> 2])
    /\ scans = <<>>
    /\ user_seq = 2
    /\ region_seq = 3
    /\ pharmacy_seq = 3
    /\ scan_seq = 1
    /\ session = [s \in Sessions |-> Null]
    /\ loggedOut = [s \in Sessions |-> FALSE]
    /\ last = NoRequest

NextConc ==
    \/ Send
    \/ ScanValidate
    \/ ScanLookup
    \/ ScanRegion
    \/ ScanInsert
    \/ LoginLookup
    \/ LoginCheck
    \/ LogoutClear
    \/ AdminRead
    \/ AdminLoad

SpecConc == InitConc /\ [][NextConc]_vars

\* The scan side (regions, pharmacies, scan events) and the admin side (users,
\* sessions) share no table and no handler: each is checked on its own, and
\* Spec is their interleaving.
NextScan ==
    \/ AddRegion
    \/ DeleteRegion
    \/ AddPharmacy
    \/ SetPharmacyRegion
    \/ ApiScan

NextAuth ==
    \/ AddUser
    \/ UpdateUser
    \/ DeleteUser
    \/ AdminLogin
    \/ AdminLogout
    \/ CurrentAdmin

Next == NextScan \/ NextAuth

SpecScan == Init /\ [][NextScan]_vars

SpecAuth == Init /\ [][NextAuth]_vars

Spec == Init /\ [][Next]_vars

\* ------------------------------------------------------------------ claims
\* The row the latest insert added.
Newest == scans[Len(scans)]

\* What the store holds, said without the handlers' helpers.
PharmaciesWith(public_id) ==
    {p \in DOMAIN pharmacies : pharmacies[p].public_id = public_id}

HasRegion(p) == pharmacies[p].region_id \in DOMAIN regions

\* C1: for every pharmacy whose region reference points to an existing active
\* region, a scan submitted with that pharmacy's public_id returns success
\* with a new scan id, and the row it stores carries that pharmacy's id and
\* that region's id.
C1_ScanStoresPharmacyAndRegion ==
    \A p \in DOMAIN pharmacies :
        ( /\ last.op = "api_scan"
          /\ last.present
          /\ last.public_id = pharmacies[p].public_id
          /\ HasRegion(p)
          /\ regions[pharmacies[p].region_id].is_active )
        => /\ last.status = 200
           /\ last.error = ""
           /\ Len(scans) >= 1
           /\ last.scan_id = Newest.id
           /\ \A i \in 1..(Len(scans) - 1) : scans[i].id # last.scan_id
           /\ Newest.pharmacy_id = p
           /\ Newest.region_id = pharmacies[p].region_id

\* C1's case: a scan of a pharmacy in an active region has just succeeded,
\* while another pharmacy and an earlier row exist.
C1_Witness ==
    /\ last.op = "api_scan"
    /\ last.status = 200
    /\ Len(scans) = 2
    /\ Cardinality(DOMAIN pharmacies) = 2
    /\ last.row \in DOMAIN pharmacies
    /\ HasRegion(last.row)
    /\ regions[pharmacies[last.row].region_id].is_active

\* C2: a scan whose pharmacy_public_id is non-empty and matches no pharmacy
\* row is answered 400 "Unknown pharmacy", and the scan events are the same
\* after the call as before it.
C2_UnknownPharmacyAddsNothing ==
    [][ ( /\ last'.op = "api_scan"
          /\ last'.present
          /\ last'.public_id # ""
          /\ PharmaciesWith(last'.public_id) = {} )
        => /\ last'.status = 400
           /\ last'.error = "Unknown pharmacy"
           /\ last'.scan_id = Null
           /\ scans' = scans ]_vars

\* C2's case: an unknown token was refused while pharmacies and rows exist.
C2_Witness ==
    /\ last.op = "api_scan"
    /\ last.present
    /\ last.public_id # ""
    /\ PharmaciesWith(last.public_id) = {}
    /\ last.status = 400
    /\ DOMAIN pharmacies # {}
    /\ Len(scans) >= 1

C7_RegionIsSnapshot ==
    [][ /\ Len(scans') >= Len(scans)
        /\ \A i \in 1..Len(scans) : scans'[i] = scans[i]
        /\ Len(scans') > Len(scans) =>
              /\ Len(scans') = Len(scans) + 1
              /\ scans'[Len(scans')].pharmacy_id \in DOMAIN pharmacies
              /\ LET p == scans'[Len(scans')].pharmacy_id
                 IN  scans'[Len(scans')].region_id =
                        IF HasRegion(p) THEN pharmacies[p].region_id ELSE Null
      ]_vars

\* C7's case: the same pharmacy was scanned twice with a region change in
\* between; the first row still shows the old region.
C7_Witness ==
    /\ Len(scans) = 2
    /\ scans[1].pharmacy_id = scans[2].pharmacy_id
    /\ scans[1].region_id # Null
    /\ scans[2].region_id # Null
    /\ scans[1].region_id # scans[2].region_id
    /\ scans[1].pharmacy_id \in DOMAIN pharmacies
    /\ pharmacies[scans[1].pharmacy_id].region_id # scans[1].region_id

\* C8: when the pharmacy found has no region reference, or a reference to a
\* region row that does not exist, the scan succeeds and the stored row's
\* region_id is null.
C8_MissingRegionIsNull ==
    \A p \in DOMAIN pharmacies :
        ( /\ last.op = "api_scan"
          /\ last.present
          /\ last.public_id = pharmacies[p].public_id
          /\ ~HasRegion(p) )
        => /\ last.status = 200
           /\ Len(scans) >= 1
           /\ last.scan_id = Newest.id
           /\ Newest.pharmacy_id = p
           /\ Newest.region_id = Null

\* C8's case: the scanned pharmacy points at a region row that is gone.
C8_Witness ==
    /\ last.op = "api_scan"
    /\ last.status = 200
    /\ last.row \in DOMAIN pharmacies
    /\ pharmacies[last.row].region_id # Null
    /\ ~HasRegion(last.row)
    /\ Newest.region_id = Null

\* The users carrying a login, said without the handlers' helpers.
UsersWith(login) == {u \in DOMAIN users : users[u].login = login}

PasswordMatches(u, password) ==
    users[u].password_hash.digest = Digest(users[u].password_hash.salt, password)

\* C4: a login is answered with one and the same 400 "Invalid credentials"
\* when no user has the login, when the password does not verify, and when
\* the user is not a superuser; in each case the session is left as it was.
C4_InvalidCredentialsUniform ==
    [][ ( /\ last'.op = "admin_login"
          /\ \/ UsersWith(last'.login) = {}
             \/ \E u \in UsersWith(last'.login) :
                   \/ ~PasswordMatches(u, last'.password)
                   \/ ~users[u].is_superuser )
        => /\ last'.status = 400
           /\ last'.error = "Invalid credentials"
           /\ session' = session ]_vars

\* C4's case: an existing user with the right password but no superuser flag
\* was refused, on a session that is logged in as somebody else.
C4_Witness ==
    /\ last.op = "admin_login"
    /\ last.status = 400
    /\ last.row \in DOMAIN users
    /\ PasswordMatches(last.row, last.password)
    /\ ~users[last.row].is_superuser
    /\ session[last.sess] # Null
    /\ session[last.sess] # last.row

\* C5: logout always answers with its redirect and leaves the session empty,
\* and from a logout until the next successful login on that session
\* get_current_admin on it is answered 401.
C5_LogoutEndsSession ==
    /\ last.op = "admin_logout" =>
          last.status = 303 /\ session[last.sess] = Null
    /\ (last.op = "get_current_admin" /\ loggedOut[last.sess]) =>
          last.status = 401 /\ last.row = Null
    /\ \A s \in Sessions : loggedOut[s] => session[s] = Null

\* C5's case: after a logout the session is refused although a valid admin
\* exists and the other session is still logged in as that admin.
C5_Witness ==
    /\ last.op = "get_current_admin"
    /\ loggedOut[last.sess]
    /\ last.status = 401
    /\ \E s \in Sessions :
          /\ s # last.sess
          /\ session[s] \in DOMAIN users
          /\ users[session[s]].is_active
          /\ users[session[s]].is_superuser

\* C6: get_current_admin returns the user exactly when the session holds a
\* user id whose row, as the store is at that request, exists, is active and
\* is a superuser; otherwise it answers 401.
C6_CurrentAdminReadsStore ==
    last.op = "get_current_admin" =>
        LET uid == session[last.sess]
            valid == /\ uid # Null
                     /\ uid \in DOMAIN users
                     /\ users[uid].is_active
                     /\ users[uid].is_superuser
        IN  /\ last.status \in {200, 401}
            /\ last.status = 200 <=> valid
            /\ last.status = 200 => last.row = uid
            /\ last.status = 401 => last.row = Null

\* C6's case: the session holds the id of a user who logged in and whose row
\* has since been deleted, and the request is refused.
C6_Witness ==
    /\ last.op = "get_current_admin"
    /\ last.status = 401
    /\ session[last.sess] # Null
    /\ session[last.sess] \notin DOMAIN users

\* C10: login succeeds for an existing superuser whose password verifies,
\* active or not, and stores that user's id in the session; for an inactive
\* user, get_current_admin on that session is answered 401.
C10_LoginIgnoresIsActive ==
    /\ \A u \in DOMAIN users :
          ( /\ last.op = "admin_login"
            /\ last.login = users[u].login
            /\ PasswordMatches(u, last.password)
            /\ users[u].is_superuser )
          => /\ last.status = 303
             /\ session[last.sess] = u
    /\ ( /\ last.op = "get_current_admin"
         /\ session[last.sess] \in DOMAIN users
         /\ ~users[session[last.sess]].is_active )
       => last.status = 401

\* C10's case: an inactive superuser has just logged in.
C10_Witness ==
    /\ last.op = "admin_login"
    /\ last.status = 303
    /\ session[last.sess] \in DOMAIN users
    /\ ~users[session[last.sess]].is_active

\* The scan requests that have been answered with success.
Succeeded ==
    {r \in ReqIds : reqs[r].kind = "api_scan" /\ reqs[r].pc = "done"
                    /\ reqs[r].status = 200}

\* C9: under any interleaving of scan, login, logout and current-admin
\* requests the scan events correspond one to one to the successful scan
\* responses (one row each, its id distinct from every other row's; no row
\* for a failed request), no stored row is changed or removed, and no user,
\* region or pharmacy row is created, changed or removed.
C9_RowsMatchResponses ==
    /\ [] /\ Cardinality(Succeeded) = Len(scans)
          /\ \A i, j \in 1..Len(scans) : scans[i].id = scans[j].id => i = j
          /\ \A r, q \in Succeeded : reqs[r].scan_id = reqs[q].scan_id => r = q
          /\ \A r \in Succeeded :
                \E i \in 1..Len(scans) :
                    /\ scans[i].id = reqs[r].scan_id
                    /\ scans[i].pharmacy_id = reqs[r].row
                    /\ scans[i].region_id = reqs[r].region
          /\ \A r \in ReqIds :
                (reqs[r].pc = "done" /\ reqs[r].status # 200) =>
                    reqs[r].scan_id = Null
    /\ [][ /\ Len(scans') >= Len(scans)
           /\ \A i \in 1..Len(scans) : scans'[i] = scans[i]
           /\ users' = users
           /\ regions' = regions
           /\ pharmacies' = pharmacies ]_vars

\* C9's case: two scans of the same pharmacy were in flight together and
\* both succeeded, the request sent second inserting first.
C9_Witness ==
    /\ Succeeded = {1, 2}
    /\ reqs[1].row = reqs[2].row
    /\ reqs[2].scan_id < reqs[1].scan_id
    /\ Len(scans) = 2

=============================================================================
